---- MODULE Spec2Model ----
(***************************************************************************)
(* Completion / hint engine of shellui (shellui/src/ui.rs) and its error   *)
(* context chain (shellui/src/errors.rs).                                  *)
(*                                                                         *)
(* Strings are sequences of one-character strings, so that prefix tests,   *)
(* substring search and tokenizing are computed character by character.    *)
(* Indices returned to the line editor are 0-based byte offsets; every     *)
(* character of the model's alphabet is one byte (ASCII).                  *)
(***************************************************************************)
EXTENDS Integers, Sequences, FiniteSets, TLC

VARIABLES
    command,     \* the clap Command handed to Ui::new (kept for reference)
    commands,    \* Ui.commands: the flattened command lines
    line,        \* the line editor's buffer
    calls,       \* the engine calls made on the current buffer
    limit,       \* find_matches: its limit argument
    pos,         \* complete: its pos argument
    matches,     \* find_matches: the command lines it yielded
    hinted,      \* Hinter::hint: its return value
    solved,      \* solve_complete: its return value
    completed,   \* Completer::complete: the pair inside its Ok
    original,    \* the error before any with_context
    contexts,    \* the contexts given to with_context so far, innermost first
    error,       \* the error as wrapped so far
    printed,     \* to_cli_string: the lines of its return value
    formatted,   \* as_formatted: the lines of its return value
    headers,     \* ObjectFormatter::headers of the items' type
    elements,    \* the Vec<T> format_table is called on, each item by its cells
    table,       \* format_table: the lines of its return value
    pc,          \* where launch_shell stands
    history_path, \* context.history_path()
    prompts,     \* the number of times rl.readline has returned
    event,       \* what the last turn of the loop was given
    action,      \* the last return value of ShellArgs::try_run
    displayed,   \* what the last turn of the loop displayed with display_cli
    saved,       \* whether rl.save_history has been called
    result       \* the return value of launch_shell

uiVars == <<command, commands, line, calls, limit, pos, matches, hinted, solved, completed>>
errVars == <<original, contexts, error, printed, formatted>>
tableVars == <<headers, elements, table>>
shellVars == <<pc, history_path, prompts, event, action, displayed, saved, result>>
vars == <<uiVars, errVars, tableVars, shellVars>>

-----------------------------------------------------------------------------
(* Bounds *)

MaxLineLen == 4
MaxLimit == 3
MaxArgs == 2
MaxContexts == 2
MaxRows == 2
MaxPrompts == 3

-----------------------------------------------------------------------------
(* Option<T> *)

None == [tag |-> "None"]
Some(x) == [tag |-> "Some", v |-> x]
IsSome(o) == o.tag = "Some"

-----------------------------------------------------------------------------
(* str helpers *)

Min(a, b) == IF a < b THEN a ELSE b

SetMax(S) == CHOOSE m \in S : \A n \in S : n <= m

\* Iterator::take(n) collected
Take(s, n) == SubSeq(s, 1, Min(n, Len(s)))

\* usize::saturating_sub
saturating_sub(a, b) == IF a < b THEN 0 ELSE a - b

\* usize::saturating_add; the model's operands stay far below usize::MAX
saturating_add(a, b) == a + b

\* char::is_whitespace, restricted to ASCII
is_whitespace(c) == c \in {" ", "\t", "\n", "\r", "\f"}

\* str::ends_with(char::is_whitespace)
ends_with_whitespace(s) == Len(s) > 0 /\ is_whitespace(s[Len(s)])

\* equality instead of a prefix test
starts_with_exactly(s, p) == s = p

\* str::starts_with
starts_with(s, p) == Len(p) <= Len(s) /\ SubSeq(s, 1, Len(p)) = p

\* nothing is stripped
strip_prefix_keeping(s, p) == IF starts_with(s, p) THEN Some(s) ELSE None

\* str::strip_prefix
strip_prefix(s, p) ==
    IF starts_with(s, p) THEN Some(SubSeq(s, Len(p) + 1, Len(s))) ELSE None

SetMin(S) == CHOOSE m \in S : \A n \in S : m <= n

\* str::find instead: the first occurrence
find(s, p) ==
    LET found == {i \in 0..(Len(s) - Len(p)) : SubSeq(s, i + 1, i + Len(p)) = p}
    IN  IF found = {} THEN None ELSE Some(SetMin(found))

\* str::rfind: 0-based index of the last occurrence of p in s
rfind(s, p) ==
    LET found == {i \in 0..(Len(s) - Len(p)) : SubSeq(s, i + 1, i + Len(p)) = p}
    IN  IF found = {} THEN None ELSE Some(SetMax(found))

\* the line is not cut at the cursor
get_to_whole(s, p) == Some(s)

\* str::get(0..pos)
get_to(s, p) == IF p <= Len(s) THEN Some(SubSeq(s, 1, p)) ELSE None

-----------------------------------------------------------------------------
(* shell_words::split: POSIX shell word splitting.  The backquote, which   *)
(* a backslash inside double quotes also escapes, is not a character of    *)
(* the model.                                                              *)

RECURSIVE split_from(_, _, _, _, _)
split_from(s, i, state, word, words) ==
    LET eof == i > Len(s)
        c == IF eof THEN "" ELSE s[i]
        next(st, w, ws) == split_from(s, i + 1, st, w, ws)
    IN
    CASE state = "Delimiter" ->
            IF eof THEN Some(words)
            ELSE IF c = "'" THEN next("SingleQuoted", word, words)
            ELSE IF c = "\"" THEN next("DoubleQuoted", word, words)
            ELSE IF c = "\\" THEN next("Backslash", word, words)
            ELSE IF c \in {"\t", " ", "\n"} THEN next("Delimiter", word, words)
            ELSE IF c = "#" THEN next("Comment", word, words)
            ELSE next("Unquoted", Append(word, c), words)
      [] state = "Backslash" ->
            IF eof THEN Some(Append(words, Append(word, "\\")))
            ELSE IF c = "\n" THEN next("Delimiter", word, words)
            ELSE next("Unquoted", Append(word, c), words)
      [] state = "Unquoted" ->
            IF eof THEN Some(Append(words, word))
            ELSE IF c = "'" THEN next("SingleQuoted", word, words)
            ELSE IF c = "\"" THEN next("DoubleQuoted", word, words)
            ELSE IF c = "\\" THEN next("UnquotedBackslash", word, words)
            ELSE IF c \in {"\t", " ", "\n"} THEN next("Delimiter", <<>>, Append(words, word))
            ELSE next("Unquoted", Append(word, c), words)
      [] state = "UnquotedBackslash" ->
            IF eof THEN Some(Append(words, Append(word, "\\")))
            ELSE IF c = "\n" THEN next("Unquoted", word, words)
            ELSE next("Unquoted", Append(word, c), words)
      [] state = "SingleQuoted" ->
            IF eof THEN None
            ELSE IF c = "'" THEN next("Unquoted", word, words)
            ELSE next("SingleQuoted", Append(word, c), words)
      [] state = "DoubleQuoted" ->
            IF eof THEN None
            ELSE IF c = "\"" THEN next("Unquoted", word, words)
            ELSE IF c = "\\" THEN next("DoubleQuotedBackslash", word, words)
            ELSE next("DoubleQuoted", Append(word, c), words)
      [] state = "DoubleQuotedBackslash" ->
            IF eof THEN None
            ELSE IF c = "\n" THEN next("DoubleQuoted", word, words)
            ELSE IF c \in {"$", "\"", "\\"} THEN next("DoubleQuoted", Append(word, c), words)
            ELSE next("DoubleQuoted", Append(Append(word, "\\"), c), words)
      [] state = "Comment" ->
            IF eof THEN Some(words)
            ELSE IF c = "\n" THEN next("Delimiter", word, words)
            ELSE next("Comment", word, words)

\* shell_words::split(line): Some(words) for Ok, None for Err(ParseError)
split(s) == split_from(s, 1, "Delimiter", <<>>, <<>>)

-----------------------------------------------------------------------------
(* CommandItem, CommandLine *)

Command(name) == [kind |-> "Command", name |-> name]
Arg(name) == [kind |-> "Arg", name |-> name]

\* CommandLine::to_command_line_iter: the names of the Command items
to_command_line_iter(cl) ==
    LET kept == SelectSeq(cl, LAMBDA item : item.kind = "Command")
    IN  [i \in 1..Len(kept) |-> kept[i].name]

-----------------------------------------------------------------------------
(* clap::Command as the flattener reads it *)

Cmd(name, subs, args) == [name |-> name, subs |-> subs, args |-> args]

has_subcommands(c) == c.subs # <<>>

help == <<"h", "e", "l", "p">>

RECURSIVE recursive_fill_command_tree(_, _)
RECURSIVE fill_subcommands(_, _, _)

\* the line is pushed once, after the loop
fill_positionals_last_only(ln, args) ==
    IF args = <<>> THEN <<>> ELSE <<ln \o [j \in 1..Len(args) |-> Arg(args[j])]>>

\* every positional argument extends the line of the command on its own
fill_positionals_independent(ln, args) ==
    [k \in 1..Len(args) |-> Append(ln, Arg(args[k]))]

\* the inner `for arg in command.get_positionals()` loop
fill_positionals(ln, args) ==
    [k \in 1..Len(args) |-> ln \o [j \in 1..k |-> Arg(args[j])]]

\* the line of a subcommand starts afresh instead of extending the prefix
fill_subcommands_without_prefix(parent, prefix, i) ==
    IF i > Len(parent.subs) THEN <<>>
    ELSE LET c == parent.subs[i]
             ln == <<Command(c.name)>>
         IN  <<ln>>
             \o (IF has_subcommands(c)
                 THEN recursive_fill_command_tree(c, ln)
                 ELSE fill_positionals(ln, c.args))
             \o fill_subcommands(parent, prefix, i + 1)

\* the positional arguments are pushed for a command with subcommands too
fill_subcommands_positionals_always(parent, prefix, i) ==
    IF i > Len(parent.subs) THEN <<>>
    ELSE LET c == parent.subs[i]
             ln == Append(prefix, Command(c.name))
         IN  <<ln>>
             \o fill_positionals(ln, c.args)
             \o (IF has_subcommands(c) THEN recursive_fill_command_tree(c, ln) ELSE <<>>)
             \o fill_subcommands(parent, prefix, i + 1)

\* the `for command in parent.get_subcommands()` loop, from the i-th child on
fill_subcommands(parent, prefix, i) ==
    IF i > Len(parent.subs) THEN <<>>
    ELSE LET c == parent.subs[i]
             ln == Append(prefix, Command(c.name))
         IN  <<ln>>
             \o (IF has_subcommands(c)
                 THEN recursive_fill_command_tree(c, ln)
                 ELSE fill_positionals(ln, c.args))
             \o fill_subcommands(parent, prefix, i + 1)

\* help is pushed after the subcommands
recursive_fill_command_tree_help_last(parent, prefix) ==
    fill_subcommands(parent, prefix, 1) \o <<Append(prefix, Command(help))>>

recursive_fill_command_tree(parent, prefix) ==
    <<Append(prefix, Command(help))>> \o fill_subcommands(parent, prefix, 1)

parse_command_tree(c) == recursive_fill_command_tree(c, <<>>)

-----------------------------------------------------------------------------
(* Ui *)

\* the filter on the length is left out
find_matches_any_length(cmds, args, lim) ==
    SelectSeq(cmds, LAMBDA cl : Take(to_command_line_iter(cl), lim) = args)

find_matches(cmds, args, lim) ==
    SelectSeq(
        SelectSeq(cmds, LAMBDA cl : Take(to_command_line_iter(cl), lim) = args),
        LAMBDA cl : Len(cl) = saturating_add(lim, 1))

\* the filter on the prefix is left out
find_matching_suggestions_unfiltered(cmds, args, lim, last_arg) ==
    LET found == find_matches(cmds, args, lim)
        withNth == SelectSeq(found, LAMBDA cl : Len(to_command_line_iter(cl)) > lim)
    IN  [i \in 1..Len(withNth) |-> to_command_line_iter(withNth[i])[lim + 1]]

find_matching_suggestions(cmds, args, lim, last_arg) ==
    LET found == find_matches(cmds, args, lim)
        withNth == SelectSeq(found, LAMBDA cl : Len(to_command_line_iter(cl)) > lim)
        nth == [i \in 1..Len(withNth) |-> to_command_line_iter(withNth[i])[lim + 1]]
    IN  SelectSeq(nth, LAMBDA name : starts_with(name, last_arg))

\* every hint can be inserted
UiHint_always_insertable(display, completion) ==
    [display |-> display, completion |-> Some(display)]

UiHint(display, completion) == [display |-> display, completion |-> completion]

\* after whitespace the first match is hinted whatever its next item is
solve_hint_guessing(cmds, ln) ==
    LET parsed == split(ln) IN
    IF ~IsSome(parsed) THEN None
    ELSE
    LET args == parsed.v IN
    IF ends_with_whitespace(ln)
    THEN LET lim == Len(args)
             found == find_matches(cmds, args, lim)
         IN  IF found = <<>> THEN None
             ELSE IF Len(found[1]) <= lim THEN None
             ELSE LET item == found[1][lim + 1]
                  IN  IF item.kind = "Arg"
                      THEN Some(UiHint(<<"<">> \o item.name \o <<">">>, None))
                      ELSE Some(UiHint(item.name, Some(item.name)))
    ELSE LET lim == saturating_sub(Len(args), 1)
             limited_args == Take(args, lim)
         IN  IF args = <<>> THEN None
             ELSE LET last_arg == args[Len(args)]
                      sugg == find_matching_suggestions(cmds, limited_args, lim, last_arg)
                  IN  IF sugg = <<>> THEN None
                      ELSE LET suffix == strip_prefix(sugg[1], last_arg)
                           IN  IF ~IsSome(suffix) THEN None
                               ELSE Some(UiHint(suffix.v, Some(suffix.v)))

solve_hint(cmds, ln) ==
    LET parsed == split(ln) IN
    IF ~IsSome(parsed) THEN None
    ELSE
    LET args == parsed.v IN
    IF ends_with_whitespace(ln)
    THEN LET lim == Len(args)
             found == find_matches(cmds, args, lim)
         IN  IF found = <<>> THEN None
             ELSE IF Len(found[1]) <= lim THEN None
             ELSE LET item == found[1][lim + 1]
                  IN  IF item.kind = "Arg"
                      THEN Some(UiHint(<<"<">> \o item.name \o <<">">>, None))
                      ELSE None
    ELSE LET lim == saturating_sub(Len(args), 1)
             limited_args == Take(args, lim)
         IN  IF args = <<>> THEN None
             ELSE LET last_arg == args[Len(args)]
                      sugg == find_matching_suggestions(cmds, limited_args, lim, last_arg)
                  IN  IF sugg = <<>> THEN None
                      ELSE LET suffix == strip_prefix(sugg[1], last_arg)
                           IN  IF ~IsSome(suffix) THEN None
                               ELSE Some(UiHint(suffix.v, Some(suffix.v)))

Completion(index, candidates) == [index |-> index, candidates |-> candidates]

solve_complete(cmds, full, p) ==
    LET cut == get_to(full, p) IN
    IF ~IsSome(cut) THEN None
    ELSE
    LET ln == cut.v
        parsed == split(ln)
    IN
    IF ~IsSome(parsed) THEN None
    ELSE
    LET args == parsed.v IN
    IF ends_with_whitespace(ln) \/ ln = <<>>
    THEN LET lim == Len(args)
             found == find_matches(cmds, args, lim)
             items == SelectSeq(found, LAMBDA cl : Len(cl) > lim)
             cmdItems == SelectSeq(items, LAMBDA cl : cl[lim + 1].kind = "Command")
         IN  Some(Completion(Len(ln), [i \in 1..Len(cmdItems) |-> cmdItems[i][lim + 1].name]))
    ELSE IF args = <<>> THEN None
         ELSE LET last_arg == args[Len(args)]
                  index == rfind(ln, last_arg)
                  lim == saturating_sub(Len(args), 1)
                  limited_args == Take(args, lim)
              IN  IF ~IsSome(index) THEN None
                  ELSE Some(Completion(index.v,
                            find_matching_suggestions(cmds, limited_args, lim, last_arg)))

\* the fallback replaces from the start of the line
complete_from_zero(cmds, ln, p) ==
    LET r == solve_complete(cmds, ln, p)
    IN  IF IsSome(r) THEN r.v ELSE Completion(0, <<>>)

\* Completer::complete: solve_complete(line, pos).unwrap_or((pos, Vec::new()))
complete(cmds, ln, p) ==
    LET r == solve_complete(cmds, ln, p)
    IN  IF IsSome(r) THEN r.v ELSE Completion(p, <<>>)

\* Hinter::hint
hint(cmds, ln) == solve_hint(cmds, ln)

-----------------------------------------------------------------------------
(* The command specifications and the keys of the model *)

e == <<"e">>
h == <<"h">>
eh == <<"e", "h">>
x == <<"x">>
y == <<"y">>

\* root { e { e, eh }, eh }: a nested level, names sharing a prefix at both
\* levels, a leaf without arguments
Nested ==
    Cmd(<<"t">>,
        <<Cmd(e, <<Cmd(e, <<>>, <<>>), Cmd(eh, <<>>, <<>>)>>, <<>>),
          Cmd(eh, <<>>, <<>>)>>,
        <<>>)

\* root { h <x> <y>, e <y> { h <x> } }: a leaf with two positional arguments
\* whose name is a prefix of help, a command with subcommands and a positional
\* argument, a nested leaf with one argument
WithArgs ==
    Cmd(<<"t">>,
        <<Cmd(h, <<>>, <<x, y>>),
          Cmd(e, <<Cmd(h, <<>>, <<x>>)>>, <<y>>)>>,
        <<>>)

\* a root without subcommands
Bare == Cmd(<<"t">>, <<>>, <<x>>)

CommandSpecs == {Nested, WithArgs, Bare}

\* the keys of the model: the letters of the names, the delimiter, a whitespace
\* character that is no delimiter, the quote and the comment sign
Chars == {"e", "h", " ", "\r", "'", "#"}

-----------------------------------------------------------------------------
(* std::error::Error values, std::io::Error and ErrorWrapper *)

\* an error that is no io::Error: its Display text and its source()
StdErr(message, cause) == [kind |-> "std", message |-> message, cause |-> cause]

\* io::Error::other(inner): a custom io::Error boxing inner
error_other(inner) == [kind |-> "io", error_kind |-> "Other", inner |-> inner]

\* ErrorWrapper::new
ErrorWrapper(message, source) == [kind |-> "wrapper", message |-> message, source |-> source]

\* fmt::Display: a custom io::Error displays the error it boxes
RECURSIVE display(_)
display(err) == IF err.kind = "io" THEN display(err.inner) ELSE err.message

\* Error::source: a custom io::Error answers with the source of the error it
\* boxes, an ErrorWrapper with the error it wraps
RECURSIVE source(_)
source(err) ==
    CASE err.kind = "io" -> source(err.inner)
      [] err.kind = "wrapper" -> Some(err.source)
      [] err.kind = "std" -> err.cause

\* with_context(error, context)
with_context(err, context) == error_other(ErrorWrapper(context, err))

\* ErrorIterator::new(start) collected: start and the sources after it
RECURSIVE ErrorIterator(_)
ErrorIterator(start) ==
    IF ~IsSome(start) THEN <<>>
    ELSE <<start.v>> \o ErrorIterator(source(start.v))

\* the numbering starts at 0
to_cli_string_from_zero(err) ==
    LET message == <<"Error: ", display(err)>>
        errors == ErrorIterator(source(err))
    IN  IF IsSome(source(err))
        THEN <<message, <<"Caused by:">>>>
             \o [i \in 1..Len(errors) |-> <<"  (", i - 1, ") ", display(errors[i])>>]
        ELSE <<message>>

\* DisplayCli::to_cli_string for io::Error, styling disabled (NO_COLOR): the
\* lines joined by "\n", each line by its pieces
to_cli_string(err) ==
    LET message == <<"Error: ", display(err)>>
        errors == ErrorIterator(source(err))
    IN  IF IsSome(source(err))
        THEN <<message, <<"Caused by:">>>>
             \o [i \in 1..Len(errors) |-> <<"  (", i, ") ", display(errors[i])>>]
        ELSE <<message>>

\* AsFormatted::as_formatted for io::Error, styling disabled: the lines
\* joined by "\n", each line by its pieces
as_formatted(err) ==
    LET message == <<display(err)>>
        errors == ErrorIterator(source(err))
    IN  IF IsSome(source(err))
        THEN <<message, <<"Caused by:">>>>
             \o [i \in 1..Len(errors) |-> <<"  (", i, ") ", display(errors[i])>>]
        ELSE <<message>>

Messages == {"Test", "Failure", "Error 1"}

\* the errors with_context is given: Error::other(message), an error of
\* another type, and both with a source of their own
Originals ==
    LET plain == {StdErr(m, None) : m \in Messages}
        caused == {StdErr(m, Some(StdErr("root cause", None))) : m \in Messages}
    IN  plain \cup caused \cup {error_other(inner) : inner \in plain \cup caused}

\* no error is being handled
NoError ==
    /\ original = error_other(StdErr("Test", None))
    /\ contexts = <<>>
    /\ error = original
    /\ printed = None
    /\ formatted = None

\* no table is being formatted
NoTable ==
    /\ headers = <<>>
    /\ elements = <<>>
    /\ table = None

\* launch_shell has not been called
NoShell ==
    /\ pc = "start"
    /\ history_path = None
    /\ prompts = 0
    /\ event = None
    /\ action = None
    /\ displayed = None
    /\ saved = FALSE
    /\ result = None

-----------------------------------------------------------------------------
(* The engine as the line editor drives it *)

\* Ui::new(command)
Init ==
    /\ command \in CommandSpecs
    /\ commands = parse_command_tree(command)
    /\ line = <<>>
    /\ calls = {}
    /\ limit = 0
    /\ pos = 0
    /\ matches = <<>>
    /\ hinted = None
    /\ solved = None
    /\ completed = Completion(0, <<>>)
    /\ NoError
    /\ NoTable
    /\ NoShell

\* the user types a character at the end of the buffer; what the engine
\* returned for the previous buffer is forgotten
Type ==
    /\ Len(line) < MaxLineLen
    /\ \E c \in Chars : line' = Append(line, c)
    /\ calls' = {}
    /\ limit' = 0
    /\ pos' = 0
    /\ matches' = <<>>
    /\ hinted' = None
    /\ solved' = None
    /\ completed' = Completion(0, <<>>)
    /\ UNCHANGED <<command, commands, errVars, tableVars, shellVars>>

\* Ui::find_matches on the words of the buffer
FindMatches ==
    /\ calls = {}
    /\ IsSome(split(line))
    /\ \E lim \in 0..MaxLimit :
          /\ limit' = lim
          /\ matches' = find_matches(commands, split(line).v, lim)
    /\ calls' = {"find_matches"}
    /\ UNCHANGED <<command, commands, line, pos, hinted, solved, completed, errVars, tableVars, shellVars>>

\* the hint consumes the first path of the collection
Hint_consuming ==
    /\ "find_matches" \notin calls
    /\ "complete" \in calls => pos = Len(line)
    /\ hinted' = hint(commands, line)
    /\ commands' = Tail(commands)
    /\ calls' = calls \cup {"hint"}
    /\ UNCHANGED <<command, line, limit, pos, matches, solved, completed, errVars, tableVars, shellVars>>

\* Hinter::hint, called on a redraw, any number of times: on a buffer no
\* completion was requested on, or after a completion request made with the
\* cursor at the end of the buffer
Hint ==
    /\ "find_matches" \notin calls
    /\ "complete" \in calls => pos = Len(line)
    /\ hinted' = hint(commands, line)
    /\ calls' = calls \cup {"hint"}
    /\ UNCHANGED <<command, commands, line, limit, pos, matches, solved, completed, errVars, tableVars, shellVars>>

\* Completer::complete, called on a completion request with the cursor at p:
\* anywhere in a fresh buffer, at the end of one that has been hinted, or once
\* more where it was requested before
Complete ==
    /\ "find_matches" \notin calls
    /\ \E p \in 0..Len(line) :
          /\ "hint" \in calls => p = Len(line)
          /\ "complete" \in calls => p = pos
          /\ pos' = p
          /\ solved' = solve_complete(commands, line, p)
          /\ completed' = complete(commands, line, p)
    /\ calls' = calls \cup {"complete"}
    /\ UNCHANGED <<command, commands, line, limit, matches, hinted, errVars, tableVars, shellVars>>

Next == Type \/ FindMatches \/ Hint \/ Complete

Spec == Init /\ [][Next]_vars

-----------------------------------------------------------------------------
(* The flattener over a family of command trees: the engine is built from  *)
(* any tree of the family and completes the empty buffer                   *)

z == <<"z">>
ArgNames == <<x, y, z>>

\* the positional arguments a leaf declares: up to MaxArgs of them
ArgLists == {SubSeq(ArgNames, 1, k) : k \in 0..MaxArgs}

Names == {e, h}

\* one or two subcommands with different names
Subcommands(S) ==
    {<<c>> : c \in S} \cup {<<p[1], p[2]>> : p \in {p \in S \X S : p[1].name # p[2].name}}

LeafCommands == {Cmd(n, <<>>, as) : n \in Names, as \in ArgLists}

InnerCommands ==
    {Cmd(n, subs, as) : n \in Names, subs \in Subcommands(LeafCommands), as \in {<<>>, <<y>>}}

Trees ==
    {Cmd(<<"t">>, subs, <<>>) : subs \in {<<>>} \cup Subcommands(LeafCommands \cup InnerCommands)}

\* Ui::new(command) for a tree of the family
InitTrees ==
    /\ command \in Trees
    /\ commands = parse_command_tree(command)
    /\ line = <<>>
    /\ calls = {}
    /\ limit = 0
    /\ pos = 0
    /\ matches = <<>>
    /\ hinted = None
    /\ solved = None
    /\ completed = Completion(0, <<>>)
    /\ NoError
    /\ NoTable
    /\ NoShell

NextTrees == Complete

SpecTrees == InitTrees /\ [][NextTrees]_vars

-----------------------------------------------------------------------------
(* Errors gathering contexts and being displayed *)

InitErrors ==
    /\ command = Bare
    /\ commands = parse_command_tree(command)
    /\ line = <<>>
    /\ calls = {}
    /\ limit = 0
    /\ pos = 0
    /\ matches = <<>>
    /\ hinted = None
    /\ solved = None
    /\ completed = Completion(0, <<>>)
    /\ original \in Originals
    /\ contexts = <<>>
    /\ error = original
    /\ printed = None
    /\ formatted = None
    /\ NoTable
    /\ NoShell

\* Result::with_context on an Err: the error is wrapped with one more context
WithContext ==
    /\ Len(contexts) < MaxContexts
    /\ \E context \in Messages :
          /\ error' = with_context(error, context)
          /\ contexts' = Append(contexts, context)
    /\ printed' = None
    /\ formatted' = None
    /\ UNCHANGED <<uiVars, tableVars, shellVars, original>>

\* DisplayCli::to_cli_string on an io::Error
ToCliString ==
    /\ error.kind = "io"
    /\ printed' = Some(to_cli_string(error))
    /\ UNCHANGED <<uiVars, tableVars, shellVars, original, contexts, error, formatted>>

\* AsFormatted::as_formatted on an io::Error
AsFormatted ==
    /\ error.kind = "io"
    /\ formatted' = Some(as_formatted(error))
    /\ UNCHANGED <<uiVars, tableVars, shellVars, original, contexts, error, printed>>

NextErrors == WithContext \/ ToCliString \/ AsFormatted

SpecErrors == InitErrors /\ [][NextErrors]_vars

-----------------------------------------------------------------------------
(* format_table: strings are sequences of characters, a character of the   *)
(* model being one byte long in UTF-8 except "é", which is two             *)

utf8_len(c) == IF c = "é" THEN 2 ELSE 1

\* str::len: the length in bytes
RECURSIVE len(_)
len(str) == IF str = <<>> THEN 0 ELSE utf8_len(Head(str)) + len(Tail(str))

Max(a, b) == IF a >= b THEN a ELSE b

\* AsFormatted for String: unformatted_len is self.len(), as_formatted is
\* as_unformatted, the string itself
unformatted_len(v) == len(v)
str_as_formatted(v) == v

\* format!("{:<1$}", str, width): left-aligned, filled with spaces up to
\* width characters
pad(str, width) ==
    str \o [i \in 1..(IF width > Len(str) THEN width - Len(str) ELSE 0) |-> " "]

\* [String]::join(sep)
RECURSIVE join(_, _)
join(strs, sep) ==
    IF strs = <<>> THEN <<>>
    ELSE IF Len(strs) = 1 THEN strs[1]
    ELSE strs[1] \o sep \o join(Tail(strs), sep)

\* extract_line: format_value of the element for every header, an element
\* being given by its values in the order of the headers
extract_line(element, hdrs) == [i \in 1..Len(hdrs) |-> element[i]]

\* the fold of compute_column_count: zip(prev, current) mapped with max
RECURSIVE fold_max(_, _)
fold_max(prev, sizes) ==
    IF sizes = <<>> THEN prev
    ELSE fold_max([i \in 1..Min(Len(prev), Len(Head(sizes))) |-> Max(prev[i], Head(sizes)[i])],
                  Tail(sizes))

compute_column_count(hdrs, values) ==
    LET zeroes == [i \in 1..Len(hdrs) |-> 0]
        header_sizes == [i \in 1..Len(hdrs) |-> len(hdrs[i])]
        value_sizes == [r \in 1..Len(values) |->
                           [i \in 1..Len(values[r]) |-> unformatted_len(values[r][i])]]
    IN  fold_max(zeroes, <<header_sizes>> \o value_sizes)

\* PrintTable::format_table for Vec<T>, styling disabled
format_table(elems, hdrs) ==
    LET values == [r \in 1..Len(elems) |-> extract_line(elems[r], hdrs)]
        column_count == compute_column_count(hdrs, values)
        header_line ==
            join([i \in 1..Min(Len(column_count), Len(hdrs)) |-> pad(hdrs[i], column_count[i])],
                 <<" ", " ", " ">>)
        value_line(ln) ==
            join([i \in 1..Min(Len(column_count), Len(ln)) |->
                     LET formatted_value == str_as_formatted(ln[i])
                         spacing == column_count[i] - unformatted_len(ln[i])
                                        + len(formatted_value)
                     IN  pad(formatted_value, spacing)],
                 <<" ", " ", " ">>)
    IN  <<header_line>> \o [r \in 1..Len(values) |-> value_line(values[r])]

id == <<"i", "d">>
label == <<"l", "a", "b", "e", "l">>

\* ObjectFormatter::headers of the types of the model: two columns, and one
\* column with a header of one character
HeaderLists == {<<id, label>>, <<<<"n">>>>}

\* what format_value returns
Values == {<<>>, <<"1">>, <<"é">>, <<"l", "2", " ", "é", "é">>}

InitTable ==
    /\ headers \in HeaderLists
    /\ elements = <<>>
    /\ table = None
    /\ command = Bare
    /\ commands = parse_command_tree(command)
    /\ line = <<>>
    /\ calls = {}
    /\ limit = 0
    /\ pos = 0
    /\ matches = <<>>
    /\ hinted = None
    /\ solved = None
    /\ completed = Completion(0, <<>>)
    /\ NoError
    /\ NoShell

\* Vec::push of an element
Push ==
    /\ Len(elements) < MaxRows
    /\ \E element \in [1..Len(headers) -> Values] : elements' = Append(elements, element)
    /\ table' = None
    /\ UNCHANGED <<uiVars, errVars, shellVars, headers>>

\* PrintTable::format_table
FormatTable ==
    /\ table' = Some(format_table(elements, headers))
    /\ UNCHANGED <<uiVars, errVars, shellVars, headers, elements>>

NextTable == Push \/ FormatTable

SpecTable == InitTable /\ [][NextTable]_vars

-----------------------------------------------------------------------------
(* The shell: ShellArgs::try_run, ShellCommand::run and launch_shell *)

Ok(v) == [tag |-> "Ok", v |-> v]
Err(err) == [tag |-> "Err", e |-> err]

\* io::Error::new(kind, inner)
Error_new(error_kind, inner) == [kind |-> "io", error_kind |-> error_kind, inner |-> inner]

\* what Text::new(label).prompt() can return
PromptResults ==
    {Ok(e), Err("NotTTY"), Err("InvalidConfiguration"), Err("IO"),
     Err("OperationCanceled"), Err("OperationInterrupted"), Err("Custom")}

\* input::get_string_input, from what the prompt returned
get_string_input(name) ==
    IF name.tag = "Ok" THEN Ok(name.v)
    ELSE CASE name.e = "NotTTY" -> Err(error_other(StdErr("Not a TTY", None)))
           [] name.e = "InvalidConfiguration" -> Err(error_other(StdErr("Failure", None)))
           [] name.e = "IO" -> Err(Error_new("BrokenPipe", StdErr("Error 1", None)))
           [] name.e \in {"OperationCanceled", "OperationInterrupted"}
                -> Err(Error_new("Interrupted", StdErr("Interrupted", None)))
           [] name.e = "Custom" -> Err(error_other(StdErr("Test", None)))

\* what T::run_command can return: Ok(()), an error of get_string_input
\* passed on with `?`, or one given a context first
RunCommandResults ==
    LET failures == {r \in {get_string_input(name) : name \in PromptResults} : r.tag = "Err"}
    IN  {Ok(<<>>)} \cup failures \cup {Err(with_context(r.e, "Failure")) : r \in failures}

exit == <<"e", "x", "i", "t">>
clear == <<"c", "l", "e", "a", "r">>

\* the names of T::Commands
UserCommands == {e}

\* ShellArgs::try_parse_from on the words of the line: the ShellCommand, or
\* the error of the argument parser
try_parse_from(words) ==
    IF words = <<exit>> THEN Ok("Exit")
    ELSE IF words = <<clear>> THEN Ok("Clear")
    ELSE IF Len(words) = 1 /\ words[1] \in UserCommands THEN Ok("Common")
    ELSE Err("clap")

\* an interrupted command is displayed like any other failure
run_displaying_all(shell_command, run_command) ==
    IF shell_command = "Common"
    THEN IF run_command.tag = "Ok"
         THEN [result |-> Ok("None"), displayed |-> None]
         ELSE [result |-> Ok("None"), displayed |-> Some(to_cli_string(run_command.e))]
    ELSE IF shell_command = "Clear"
    THEN [result |-> Ok("ClearScreen"), displayed |-> None]
    ELSE [result |-> Ok("Eof"), displayed |-> None]

\* ShellCommand::run, run_command being what T::run_command returns: the
\* Result<ShellAction> and what display_cli wrote
run(shell_command, run_command) ==
    IF shell_command = "Common"
    THEN IF run_command.tag = "Ok"
         THEN [result |-> Ok("None"), displayed |-> None]
         ELSE IF run_command.e.error_kind = "Interrupted"
         THEN [result |-> Ok("None"), displayed |-> None]
         ELSE [result |-> Ok("None"), displayed |-> Some(to_cli_string(run_command.e))]
    ELSE IF shell_command = "Clear"
    THEN [result |-> Ok("ClearScreen"), displayed |-> None]
    ELSE [result |-> Ok("Eof"), displayed |-> None]

\* ShellArgs::try_run, error_print being what error.print() returns
try_run(ln, run_command, error_print) ==
    LET parsed == split(ln) IN
    IF ~IsSome(parsed)
    THEN [result |-> Err(error_other(StdErr("missing closing quote", None))), displayed |-> None]
    ELSE IF parsed.v # <<>>
    THEN LET args == try_parse_from(parsed.v)
         IN  IF args.tag = "Ok" THEN run(args.v, run_command)
             ELSE IF error_print = "Err"
             THEN [result |-> Err(Error_new("BrokenPipe", StdErr("Error 1", None))),
                   displayed |-> None]
             ELSE [result |-> Ok("None"), displayed |-> None]
    ELSE [result |-> Ok("None"), displayed |-> None]

\* the lines readline returns: empty, blank, with an unterminated quote, the
\* commands of the shell, a user command, and lines the parser rejects
ShellLines ==
    {<<>>, <<" ">>, <<"'", "e">>, exit, clear, e, h, exit \o <<" ">> \o e}

\* what a turn of the loop was given: what readline returned and, where the
\* turn came to ask for them, what run_command, error.print() and
\* rl.clear_screen() returned
Event(readline, ln, run_command, error_print, clear_screen) ==
    [readline |-> readline, line |-> ln, run_command |-> run_command,
     error_print |-> error_print, clear_screen |-> clear_screen]

InitShell ==
    /\ NoShell
    /\ command = Bare
    /\ commands = parse_command_tree(command)
    /\ line = <<>>
    /\ calls = {}
    /\ limit = 0
    /\ pos = 0
    /\ matches = <<>>
    /\ hinted = None
    /\ solved = None
    /\ completed = Completion(0, <<>>)
    /\ NoError
    /\ NoTable

\* launch_shell up to the loop: the history path of the context, the editor
\* built and the history loaded, either of which may fail
Launch ==
    /\ pc = "start"
    /\ \E path \in {None, Some("history")}, with_config \in {"Ok", "Err"}, load_history \in {"Ok", "Err"} :
          /\ history_path' = path
          /\ IF with_config = "Err" \/ (IsSome(path) /\ load_history = "Err")
             THEN /\ pc' = "returned"
                  /\ result' = Some(Err(error_other(StdErr("Failure", None))))
             ELSE /\ pc' = "loop"
                  /\ result' = None
    /\ UNCHANGED <<uiVars, errVars, tableVars, prompts, event, action, displayed, saved>>

\* a Ctrl-C at the prompt ends the loop
ReadlineInterrupted_breaking ==
    /\ pc = "loop"
    /\ prompts < MaxPrompts
    /\ prompts' = prompts + 1
    /\ event' = Some(Event("Interrupted", <<>>, None, None, None))
    /\ action' = None
    /\ displayed' = None
    /\ pc' = "broken"
    /\ UNCHANGED <<uiVars, errVars, tableVars, history_path, saved, result>>

\* a turn of the loop in which readline returns Err(ReadlineError::Interrupted)
ReadlineInterrupted ==
    /\ pc = "loop"
    /\ prompts < MaxPrompts
    /\ prompts' = prompts + 1
    /\ event' = Some(Event("Interrupted", <<>>, None, None, None))
    /\ action' = None
    /\ displayed' = None
    /\ UNCHANGED <<uiVars, errVars, tableVars, pc, history_path, saved, result>>

\* a turn of the loop in which readline returns Err(ReadlineError::Eof) or
\* any other error
ReadlineError ==
    /\ pc = "loop"
    /\ prompts < MaxPrompts
    /\ prompts' = prompts + 1
    /\ \E readline \in {"Eof", "Io"} :
          event' = Some(Event(readline, <<>>, None, None, None))
    /\ action' = None
    /\ displayed' = None
    /\ pc' = "broken"
    /\ UNCHANGED <<uiVars, errVars, tableVars, history_path, saved, result>>

\* a turn of the loop in which readline returns Ok(line)
ReadlineOk ==
    /\ pc = "loop"
    /\ prompts < MaxPrompts
    /\ prompts' = prompts + 1
    /\ \E ln \in ShellLines, run_command \in RunCommandResults,
          error_print \in {"Ok", "Err"}, clear_screen \in {"Ok", "Err"} :
          LET ran == try_run(ln, run_command, error_print)
              parsed == IF IsSome(split(ln)) /\ split(ln).v # <<>>
                        THEN Some(try_parse_from(split(ln).v)) ELSE None
              common == IsSome(parsed) /\ parsed.v = Ok("Common")
              rejected == IsSome(parsed) /\ parsed.v.tag = "Err"
              clears == ran.result = Ok("ClearScreen")
          IN  /\ event' = Some(Event("Ok", ln,
                                     IF common THEN Some(run_command) ELSE None,
                                     IF rejected THEN Some(error_print) ELSE None,
                                     IF clears THEN Some(clear_screen) ELSE None))
              /\ action' = Some(ran.result)
              /\ displayed' = ran.displayed
              /\ IF ran.result.tag = "Err"
                 THEN pc' = "returned" /\ result' = Some(ran.result)
                 ELSE IF clears /\ clear_screen = "Err"
                 THEN /\ pc' = "returned"
                      /\ result' = Some(Err(error_other(StdErr("Failure", None))))
                 ELSE IF ran.result = Ok("Eof")
                 THEN pc' = "broken" /\ result' = result
                 ELSE pc' = pc /\ result' = result
    /\ UNCHANGED <<uiVars, errVars, tableVars, history_path, saved>>

\* launch_shell after the loop: the history is saved when it has a path, and
\* launch_shell returns
SaveHistory ==
    /\ pc = "broken"
    /\ pc' = "returned"
    /\ IF IsSome(history_path)
       THEN /\ saved' = TRUE
            /\ \E save_history \in {"Ok", "Err"} :
                  result' = Some(IF save_history = "Ok" THEN Ok(<<>>)
                                 ELSE Err(error_other(StdErr("Failure", None))))
       ELSE /\ saved' = saved
            /\ result' = Some(Ok(<<>>))
    /\ UNCHANGED <<uiVars, errVars, tableVars, history_path, prompts, event, action, displayed>>

NextShell == Launch \/ ReadlineOk \/ ReadlineInterrupted \/ ReadlineError \/ SaveHistory

SpecShell == InitShell /\ [][NextShell]_vars

-----------------------------------------------------------------------------
(* What the buffer denotes in the command tree *)

\* the words of the buffer, <<>> when it does not tokenize
Words(s) == IF IsSome(split(s)) THEN split(s).v ELSE <<>>

Last(s) == s[Len(s)]
Front(s) == SubSeq(s, 1, Len(s) - 1)

\* the node a chain of subcommand names leads to from node c, if any
RECURSIVE Descend(_, _)
Descend(c, chain) ==
    IF chain = <<>> THEN Some(c)
    ELSE LET named == {i \in 1..Len(c.subs) : c.subs[i].name = chain[1]}
         IN  IF named = {} THEN None
             ELSE Descend(c.subs[CHOOSE i \in named : \A j \in named : i <= j],
                          Tail(chain))

ChildNames(n) == [i \in 1..Len(n.subs) |-> n.subs[i].name]

\* a path matches the typed words when every Literal among its first lim
\* items equals the word at its position and a Placeholder stands for any word
MatchesAt(cl, args, lim) ==
    /\ Len(cl) = lim + 1
    /\ Len(args) >= lim
    /\ \A i \in 1..lim : cl[i] = Command(args[i]) \/ cl[i].kind = "Arg"

-----------------------------------------------------------------------------
(* C1, C2: the matcher *)

\* C1: find_matches(typed_tokens, limit) with limit = len(typed_tokens)
\* returns exactly the flattened paths of length limit + 1 whose first limit
\* items are, position by position, Literal(token) or any Placeholder.
C1_PlaceholderMatchesAnyToken ==
    ("find_matches" \in calls /\ limit = Len(Words(line)))
        => matches = SelectSeq(commands, LAMBDA cl : MatchesAt(cl, Words(line), limit))

\* C2: find_matches(tokens, limit) never returns a path whose length differs
\* from limit + 1, whatever the tokens and the limit.
C2_MatchLength ==
    "find_matches" \in calls => \A i \in 1..Len(matches) : Len(matches[i]) = limit + 1

\* several paths are returned for a limit below the number of typed words, and
\* a path with Placeholders for a limit above it
C2_Witness ==
    /\ "find_matches" \in calls
    /\ Len(matches) >= 1
    /\ limit >= 2
    /\ limit # Len(Words(line))

-----------------------------------------------------------------------------
(* C3 .. C6: the hint engine *)

HasPrefix(s, p) == Len(p) <= Len(s) /\ \A i \in 1..Len(p) : s[i] = p[i]
Drop(s, n) == SubSeq(s, n + 1, Len(s))
WithPrefix(names, p) == SelectSeq(names, LAMBDA name : HasPrefix(name, p))

\* the buffer is mid-token: it has words and does not end in whitespace
MidToken(s) == ~ends_with_whitespace(s) /\ Words(s) # <<>>

\* the entries at a node's level as section 4.2 of the specification has
\* them: the synthetic help at every node, then the node's children
EntriesAtEveryNode(n) == <<help>> \o ChildNames(n)

\* the entries at the level the chain leads to: help and the children at the
\* root and at a command with subcommands, nothing below a leaf
Entries(chain) ==
    IF ~IsSome(Descend(command, chain)) THEN <<>>
    ELSE LET n == Descend(command, chain).v
         IN  IF chain = <<>> \/ n.subs # <<>> THEN <<help>> \o ChildNames(n) ELSE <<>>

Insertable(s) == Some(UiHint(s, Some(s)))
ArgumentHint(name) == Some(UiHint(<<"<">> \o name \o <<">">>, None))

\* C3 as stated: mid-token, with the words before the last one leading to a
\* node N, the hint is the rest of the first entry at N's level (help, then N's
\* children) that starts with the last word, for every node N.
C3_HintAtEveryNode ==
    ("hint" \in calls /\ MidToken(line) /\ IsSome(Descend(command, Front(Words(line)))))
        => LET n == Descend(command, Front(Words(line))).v
               last == Last(Words(line))
               found == WithPrefix(EntriesAtEveryNode(n), last)
           IN  found # <<>> => hinted = Insertable(Drop(found[1], Len(last)))

\* C3 amended: the same where N is the root or a command that has subcommands
\* (a leaf has no help entry); the hint is Some("") when the last word is the
\* entry itself.
C3_HintCompletesFirstEntry ==
    ("hint" \in calls /\ MidToken(line) /\ IsSome(Descend(command, Front(Words(line)))))
        => LET n == Descend(command, Front(Words(line))).v
               last == Last(Words(line))
               found == WithPrefix(EntriesAtEveryNode(n), last)
           IN  (found # <<>> /\ (Len(Words(line)) = 1 \/ n.subs # <<>>))
                   => hinted = Insertable(Drop(found[1], Len(last)))

\* a hint below the root that leaves something to insert
C3_Witness ==
    /\ "hint" \in calls
    /\ MidToken(line)
    /\ Len(Words(line)) >= 2
    /\ IsSome(Descend(command, Front(Words(line))))
    /\ Descend(command, Front(Words(line))).v.subs # <<>>
    /\ IsSome(hinted)
    /\ hinted.v.display # <<>>

\* C4: after the words of a chain of subcommands that ends at a leaf declaring
\* positional arguments, on a line ending in whitespace, the hint displays
\* "<a1>" for the first declared argument and has nothing to insert.
C4_HintFirstArgument ==
    ("hint" \in calls /\ ends_with_whitespace(line) /\ Words(line) # <<>>
        /\ IsSome(Descend(command, Words(line))))
        => LET n == Descend(command, Words(line)).v
           IN  (n.subs = <<>> /\ n.args # <<>>) => hinted = ArgumentHint(n.args[1])

\* the first argument of a leaf below the root level
C4_Witness ==
    /\ "hint" \in calls
    /\ ends_with_whitespace(line)
    /\ Len(Words(line)) = 2
    /\ IsSome(Descend(command, Words(line)))
    /\ Descend(command, Words(line)).v.subs = <<>>
    /\ hinted = ArgumentHint(x)

\* C5: after the path of a leaf declaring a1..an and k argument words of any
\* value (1 <= k < n), on a line ending in whitespace, the hint displays
\* "<a(k+1)>" and has nothing to insert.
C5_HintNextArgument ==
    ("hint" \in calls /\ ends_with_whitespace(line) /\ IsSome(split(line)))
        => \A k \in 1..(Len(Words(line)) - 1) :
              LET chain == Take(Words(line), Len(Words(line)) - k)
                  n == Descend(command, chain)
              IN  (IsSome(n) /\ n.v.subs = <<>> /\ k < Len(n.v.args))
                      => hinted = ArgumentHint(n.v.args[k + 1])

\* the paths matching the typed words, a Placeholder standing for any word
Matching(words) == SelectSeq(commands, LAMBDA cl : MatchesAt(cl, words, Len(words)))

\* C6: on a line ending in whitespace the hint is None when no path matches
\* or the first matching path's next item is a Literal; so it is after the
\* path of a node that has subcommands, at the root, and for the empty line.
C6_NoHintAmongLiterals ==
    "hint" \in calls =>
        /\ line = <<>> => hinted = None
        /\ (ends_with_whitespace(line) /\ IsSome(split(line))) =>
              /\ Matching(Words(line)) = <<>> => hinted = None
              /\ (Matching(Words(line)) # <<>>
                    /\ Matching(Words(line))[1][Len(Words(line)) + 1].kind = "Command")
                        => hinted = None
              /\ (IsSome(Descend(command, Words(line)))
                    /\ (Words(line) = <<>> \/ Descend(command, Words(line)).v.subs # <<>>))
                        => hinted = None

\* the words name a command with subcommands: several literal continuations
C6_Witness ==
    /\ "hint" \in calls
    /\ ends_with_whitespace(line)
    /\ Words(line) # <<>>
    /\ IsSome(Descend(command, Words(line)))
    /\ Len(Descend(command, Words(line)).v.subs) >= 2
    /\ hinted = None

-----------------------------------------------------------------------------
(* C7 .. C10: the completion engine *)

\* the text left of the cursor
Left == SubSeq(line, 1, pos)

\* where the last word of s begins: the longest prefix of s that tokenizes
\* into the words before the last one ends there
LastTokenStart(s) ==
    SetMax({i \in 0..Len(s) :
               /\ IsSome(split(SubSeq(s, 1, i)))
               /\ Len(split(SubSeq(s, 1, i)).v) = Len(Words(s)) - 1})

\* the last word stands in s as it was typed, without quotes or escapes and
\* with nothing after it
Verbatim(s) == Drop(s, LastTokenStart(s)) = Last(Words(s))

Occurs(s, p, i) == i + Len(p) <= Len(s) /\ SubSeq(s, i + 1, i + Len(p)) = p

\* C7 as stated: mid-token, complete returns the start index of the last word
\* and all the entries at the level of the words before it (help, then the
\* children) that start with the last word.
C7_CompleteFromTokenStart ==
    ("complete" \in calls /\ MidToken(Left))
        => LET chain == Front(Words(Left))
               n == Descend(command, chain)
               names == IF IsSome(n) THEN EntriesAtEveryNode(n.v) ELSE <<>>
           IN  solved = Some(Completion(LastTokenStart(Left),
                                        WithPrefix(names, Last(Words(Left)))))

\* C7 amended: the same for a last word typed verbatim (no quotes, escapes or
\* trailing comment), the entries being help and the children at the root and
\* at a command with subcommands and none below a leaf; Placeholder names are
\* never candidates.
C7_CompleteVerbatimToken ==
    ("complete" \in calls /\ MidToken(Left) /\ Verbatim(Left))
        => solved = Some(Completion(LastTokenStart(Left),
                                    WithPrefix(Entries(Front(Words(Left))), Last(Words(Left)))))

\* several candidates for a partial word below the root level
C7_Witness ==
    /\ "complete" \in calls
    /\ MidToken(Left)
    /\ Verbatim(Left)
    /\ Len(Words(Left)) >= 2
    /\ IsSome(solved)
    /\ Len(solved.v.candidates) >= 2
    /\ solved.v.index > 0

LiteralNext(paths, lim) ==
    LET lits == SelectSeq(paths, LAMBDA cl : cl[lim + 1].kind = "Command")
    IN  [i \in 1..Len(lits) |-> lits[i][lim + 1].name]

\* C8: for text left of the cursor that is empty or ends in whitespace,
\* complete returns the cursor position and the names of the Literal next
\* items of the matching paths in flattener order: help and the children in
\* declared order after a command with subcommands, nothing after a leaf whose
\* next slot is a Placeholder.
C8_CompleteNextToken ==
    ("complete" \in calls /\ (Left = <<>> \/ ends_with_whitespace(Left)) /\ IsSome(split(Left)))
        => /\ solved = Some(Completion(pos, LiteralNext(Matching(Words(Left)), Len(Words(Left)))))
           /\ IsSome(Descend(command, Words(Left)))
                => LET n == Descend(command, Words(Left)).v
                   IN  /\ n.subs # <<>> => solved.v.candidates = <<help>> \o ChildNames(n)
                       /\ (Words(Left) # <<>> /\ n.subs = <<>> /\ n.args # <<>>)
                            => solved.v.candidates = <<>>

\* help and two children are listed after the name of a nested command
C8_Witness ==
    /\ "complete" \in calls
    /\ ends_with_whitespace(Left)
    /\ Words(Left) # <<>>
    /\ IsSome(solved)
    /\ Len(solved.v.candidates) = 3
    /\ solved.v.candidates[1] = help

\* C9 as stated: mid-token, the index complete returns is the index of the
\* last occurrence of the last word in the whole line.
C9_IndexInWholeLine ==
    ("complete" \in calls /\ MidToken(Left))
        => /\ Occurs(line, Last(Words(Left)), completed.index)
           /\ \A j \in 0..Len(line) :
                 Occurs(line, Last(Words(Left)), j) => j <= completed.index

\* C9 amended: mid-token, when solve_complete returns a result its index is
\* the index of the last occurrence of the last word in the text left of the
\* cursor; it returns none when the word does not occur there.
C9_IndexLeftOfCursor ==
    ("complete" \in calls /\ MidToken(Left))
        => /\ IsSome(solved) =>
                 /\ Occurs(Left, Last(Words(Left)), solved.v.index)
                 /\ \A j \in 0..Len(Left) :
                       Occurs(Left, Last(Words(Left)), j) => j <= solved.v.index
           /\ ~IsSome(solved) => \A j \in 0..Len(Left) : ~Occurs(Left, Last(Words(Left)), j)

\* the last word occurs twice left of the cursor, which is not at the end
C9_Witness ==
    /\ "complete" \in calls
    /\ MidToken(Left)
    /\ Last(Words(Left)) # <<>>
    /\ pos < Len(line)
    /\ IsSome(solved)
    /\ solved.v.index > 0
    /\ Occurs(Left, Last(Words(Left)), 0)

\* hint and complete have both been called on the buffer, the cursor at its end
Both == calls = {"hint", "complete"} /\ pos = Len(line)

Agree ==
    /\ IsSome(hinted) <=> completed.candidates # <<>>
    /\ IsSome(hinted) =>
          /\ IsSome(hinted.v.completion)
          /\ Last(Words(line)) \o hinted.v.completion.v = completed.candidates[1]

\* C10 as stated: on a line that is not empty and does not end in whitespace
\* hint is Some iff complete has candidates, and then the last word followed by the hint's suffix is
\* the first candidate.
C10_HintAgreesWithComplete ==
    (Both /\ line # <<>> /\ ~ends_with_whitespace(line)) => Agree

\* C10 amended: the same on a line that has words, does not end in whitespace
\* and holds its last word verbatim somewhere (str::rfind finds it).
C10_HintAgreesOnFoundToken ==
    (Both /\ MidToken(line) /\ \E j \in 0..Len(line) : Occurs(line, Last(Words(line)), j))
        => Agree

\* a hint with something to insert and several candidates
C10_Witness ==
    /\ Both
    /\ MidToken(line)
    /\ IsSome(hinted)
    /\ hinted.v.display # <<>>
    /\ Len(completed.candidates) >= 2

-----------------------------------------------------------------------------
(* C11 .. C14: the flattened collection *)

\* the chains of subcommand names leading to the nodes of tree c, the empty
\* chain to c itself
RECURSIVE NodeChains(_)
NodeChains(c) ==
    {<<>>} \cup UNION {{<<c.subs[i].name>> \o chain : chain \in NodeChains(c.subs[i])}
                        : i \in 1..Len(c.subs)}

Node(chain) == Descend(command, chain).v

\* the path of Literals to the node the chain leads to
Literals(chain) == [i \in 1..Len(chain) |-> Command(chain[i])]

HelpPath(chain) == Append(Literals(chain), Command(help))

\* where a path stands in the flattened collection
Positions(path) == {i \in 1..Len(commands) : commands[i] = path}

\* the positions of the paths that go through the node the chain leads to
Block(chain) == {i \in 1..Len(commands) : HasPrefix(commands[i], Literals(chain))}

\* the positions of the paths for the children of the node
ChildPositions(chain) ==
    UNION {Block(Append(chain, Node(chain).subs[i].name)) : i \in 1..Len(Node(chain).subs)}

HelpFirst(chain) ==
    /\ Positions(HelpPath(chain)) # {}
    /\ \A i \in Positions(HelpPath(chain)) : \A j \in ChildPositions(chain) : i < j

\* C11 as stated: for every node of the command tree, the root included, the
\* flattened collection contains the path to that node + Literal("help"), and
\* it stands before every path for that node's children.
C11_HelpAtEveryNode ==
    \A chain \in NodeChains(command) : HelpFirst(chain)

\* C11: for the root and for every node that has subcommands, the flattened
\* collection contains the path to that node + Literal("help"), and that help
\* path stands before every path for the node's children; a subcommand
\* without subcommands has no help path.
C11_HelpAtNodesWithChildren ==
    \A chain \in NodeChains(command) :
        IF chain = <<>> \/ has_subcommands(Node(chain))
        THEN HelpFirst(chain)
        ELSE Positions(HelpPath(chain)) = {}

\* a tree with a subcommand that has subcommands, next to one that has none
C11_Witness ==
    /\ \E chain \in NodeChains(command) : chain # <<>> /\ has_subcommands(Node(chain))
    /\ \E chain \in NodeChains(command) : Len(chain) = 1 /\ ~has_subcommands(Node(chain))
    /\ Len(commands) >= 5

\* the positional arguments a1 .. ak as Placeholders
Placeholders(args, k) == [j \in 1..k |-> Arg(args[j])]

\* the family of a leaf is emitted consecutively, from the leaf's own path on
FamilyAt(chain, i) ==
    \A k \in 0..Len(Node(chain).args) :
        /\ i + k <= Len(commands)
        /\ commands[i + k] = Literals(chain) \o Placeholders(Node(chain).args, k)

\* the node's subcommands in declared order, each with all its descendants
\* before the next sibling, the subcommand's own path first
SiblingsInOrder(chain) ==
    LET n == Node(chain)
        block(i) == Block(Append(chain, n.subs[i].name))
    IN  \A i \in 1..Len(n.subs) :
            /\ block(i) # {}
            /\ block(i) = SetMin(block(i))..SetMax(block(i))
            /\ commands[SetMin(block(i))] = Literals(Append(chain, n.subs[i].name))
            /\ \A j \in 1..Len(n.subs) : i < j => SetMax(block(i)) < SetMin(block(j))

\* C12: for every subcommand c without subcommands that declares positional
\* arguments a1..ak, the flattener emits consecutively prefix+Literal(c),
\* prefix+Literal(c)+Placeholder(a1), ..., each path one Placeholder longer than
\* the one before; subcommands are emitted in declared order, each followed by
\* its own descendants before the next sibling.
C12_CumulativeFamily ==
    \A chain \in NodeChains(command) :
        /\ (chain # <<>> /\ ~has_subcommands(Node(chain)))
              => \E i \in 1..Len(commands) : FamilyAt(chain, i)
        /\ SiblingsInOrder(chain)

\* a leaf with two positional arguments that has a sibling after it, below a
\* subcommand
C12_Witness ==
    \E chain \in NodeChains(command) :
        /\ Len(chain) = 1
        /\ Len(Node(chain).subs) = 2
        /\ Len(Node(chain).subs[1].args) = 2
        /\ Len(command.subs) = 2

\* C13: the flattened collection is prefix-closed: for every flattened path of
\* length n and every k with 1 <= k < n, the first k items of the path are
\* themselves a path of the flattened collection.
C13_PrefixClosed ==
    \A i \in 1..Len(commands) :
        \A k \in 1..(Len(commands[i]) - 1) : Positions(Take(commands[i], k)) # {}

\* paths of three and more items, ending in a Placeholder and ending in help
C13_Witness ==
    /\ \E i \in 1..Len(commands) : Len(commands[i]) >= 4 /\ Last(commands[i]).kind = "Arg"
    /\ \E i \in 1..Len(commands) : Len(commands[i]) = 2 /\ Last(commands[i]) = Command(help)

\* C14 as stated: with the Placeholders stripped, every flattened path is the
\* chain of names of a node of the tree.
C14_LiteralsReachNode ==
    \A i \in 1..Len(commands) : to_command_line_iter(commands[i]) \in NodeChains(command)

\* C14: with the Placeholders stripped, every flattened path is the chain of
\* names of a node of the tree, or such a chain followed by the synthetic help.
C14_LiteralsReachNodeOrHelp ==
    \A i \in 1..Len(commands) :
        LET names == to_command_line_iter(commands[i])
        IN  \/ names \in NodeChains(command)
            \/ names # <<>> /\ Last(names) = help /\ Front(names) \in NodeChains(command)

\* paths with Placeholders to strip, two levels down
C14_Witness ==
    \E i \in 1..Len(commands) :
        /\ Len(to_command_line_iter(commands[i])) = 2
        /\ Len(commands[i]) >= 4
        /\ to_command_line_iter(commands[i]) \in NodeChains(command)

-----------------------------------------------------------------------------
(* C15 .. C19: what hint and complete return, and what they leave alone *)

NamesOfKind(kind) ==
    UNION {{commands[i][j].name : j \in {j \in 1..Len(commands[i]) : commands[i][j].kind = kind}}
             : i \in 1..Len(commands)}

PlaceholderNames == NamesOfKind("Arg")
LiteralNames == NamesOfKind("Command")

\* shape (a): after whitespace, the name of a Placeholder between angle
\* brackets, not insertable
PlaceholderShape(s, ht) ==
    /\ ends_with_whitespace(s)
    /\ ht.completion = None
    /\ \E name \in PlaceholderNames : ht.display = <<"<">> \o name \o <<">">>

\* shape (b): mid-token, insertable, the suffix being the display
InsertableShape(s, ht) ==
    /\ ~ends_with_whitespace(s)
    /\ ht.completion = Some(ht.display)

\* C15: if hint returns a Hint then exactly one of two shapes holds: (a) the
\* line ends in whitespace, display is "<name>" for a Placeholder name and the
\* suffix is absent; (b) the line does not end in whitespace and the suffix is
\* present and equal to display.  A Placeholder name is never an insertable
\* suffix nor a completion candidate: what is inserted completes the name of
\* a Literal, and every candidate is the name of a Literal.
C15_HintShapes ==
    /\ ("hint" \in calls /\ IsSome(hinted)) =>
          /\ PlaceholderShape(line, hinted.v) # InsertableShape(line, hinted.v)
          /\ IsSome(hinted.v.completion) =>
                /\ hinted.v.completion.v \notin PlaceholderNames
                /\ Last(Words(line)) \o hinted.v.completion.v \in LiteralNames \ PlaceholderNames
    /\ "complete" \in calls =>
          \A i \in 1..Len(completed.candidates) :
              completed.candidates[i] \in LiteralNames \ PlaceholderNames

\* after a command and whitespace the hint names the Placeholder and the
\* completion, asked at the same place, offers nothing
C15_Witness ==
    /\ Both
    /\ IsSome(hinted)
    /\ PlaceholderShape(line, hinted.v)
    /\ completed.candidates = <<>>
    /\ IsSome(solved)

\* C16: complete(line, cursor_pos) considers only the text left of the cursor:
\* it returns what it returns for that text alone and for that text followed
\* by any other character, so two lines that agree on their first cursor_pos
\* positions get the same (replace_from_index, candidates).
C16_LeftOfCursorOnly ==
    "complete" \in calls =>
        /\ solved = solve_complete(commands, Left, pos)
        /\ completed = complete(commands, Left, pos)
        /\ \A c \in Chars : completed = complete(commands, Append(Left, c), pos)

\* the cursor stands inside the last word, before another word, and there are
\* candidates
C16_Witness ==
    /\ "complete" \in calls
    /\ pos < Len(line)
    /\ pos >= 1
    /\ completed.candidates # <<>>
    /\ IsSome(split(line))
    /\ Words(line) # Words(Left)

\* C17: if tokenizing fails on the line given to hint, hint returns None; if it
\* fails on the text left of the cursor given to complete, solve_complete
\* returns None and complete returns (cursor_pos, empty list).
C17_TokenizeFailure ==
    /\ ("hint" \in calls /\ ~IsSome(split(line))) => hinted = None
    /\ ("complete" \in calls /\ ~IsSome(split(Left))) =>
          /\ solved = None
          /\ completed = Completion(pos, <<>>)

\* a line with an unterminated quote, hinted and completed at its end
C17_Witness ==
    /\ Both
    /\ ~IsSome(split(line))
    /\ pos >= 2

\* a path is consistent with the words before the last one and the partial
\* last word: item by item a Literal is the word and a Placeholder stands for
\* any word, and the next item is a Literal that starts with the partial word
\* or a Placeholder
Consistent(cl, before, partial) ==
    /\ Len(cl) > Len(before)
    /\ \A k \in 1..Len(before) : cl[k] = Command(before[k]) \/ cl[k].kind = "Arg"
    /\ \/ cl[Len(before) + 1].kind = "Arg"
       \/ HasPrefix(cl[Len(before) + 1].name, partial)

\* no path is consistent with the words of s, the last one partial when s
\* does not end in whitespace
NothingConsistent(s) ==
    /\ IsSome(split(s))
    /\ LET words == Words(s)
           complete_words == ends_with_whitespace(s) \/ words = <<>>
           before == IF complete_words THEN words ELSE Front(words)
           partial == IF complete_words THEN <<>> ELSE Last(words)
       IN  \A i \in 1..Len(commands) : ~Consistent(commands[i], before, partial)

\* C18: if no flattened path is consistent with the typed tokens (a preceding
\* token is not a known subcommand at its level, or no Literal at the current
\* level starts with the partial last token), hint returns None and complete
\* returns an empty candidate list.
C18_NothingToOffer ==
    /\ ("hint" \in calls /\ NothingConsistent(line)) => hinted = None
    /\ ("complete" \in calls /\ NothingConsistent(Left)) => completed.candidates = <<>>

\* a last word no entry starts with, after a word that names a subcommand
C18_Witness ==
    /\ Both
    /\ NothingConsistent(line)
    /\ Len(Words(line)) = 2
    /\ ~ends_with_whitespace(line)
    /\ IsSome(Descend(command, Front(Words(line))))

\* C19: no call of hint or complete changes the flattened collection, and
\* calling hint or complete again with the same arguments, whatever was called
\* in between, returns what it returned before.
C19_NoHiddenState ==
    [][/\ commands' = commands
       /\ ("hint" \in calls /\ "hint" \in calls' /\ line' = line) => hinted' = hinted
       /\ ("complete" \in calls /\ "complete" \in calls' /\ line' = line /\ pos' = pos)
              => (solved' = solved /\ completed' = completed)]_vars

\* hint and complete have both been called on a line they have answers for
C19_Witness ==
    /\ Both
    /\ IsSome(hinted)
    /\ Len(completed.candidates) >= 2

-----------------------------------------------------------------------------
(* C20: an error with its contexts, displayed *)

\* the message of the outermost context, of the error itself without one
Outermost ==
    IF contexts = <<>> THEN display(original) ELSE contexts[Len(contexts)]

\* the remaining contexts from the outermost to the innermost, then the
\* original error
Remaining ==
    IF contexts = <<>> THEN <<>>
    ELSE [i \in 1..(Len(contexts) - 1) |-> contexts[Len(contexts) - i]]
         \o <<display(original)>>

\* the messages of the sources the original error has of its own
RECURSIVE OwnSources(_)
OwnSources(err) ==
    IF err.kind = "io" THEN OwnSources(err.inner)
    ELSE IF IsSome(err.cause) THEN <<err.cause.v.message>> \o OwnSources(err.cause.v)
    ELSE <<>>

Numbered(messages) == [i \in 1..Len(messages) |-> <<"  (", i, ") ", messages[i]>>]

Displayed(first, listed) ==
    IF listed = <<>> THEN <<first>> ELSE <<first, <<"Caused by:">>>> \o Numbered(listed)

\* C20 as stated: the outermost context as first line (after "Error: " for
\* to_cli_string), and for n >= 1 contexts a "Caused by:" line and exactly n
\* numbered lines, the remaining contexts and last the original error; for
\* n = 0 the message line only.
C20_ExactlyNCauses ==
    /\ IsSome(printed) => printed.v = Displayed(<<"Error: ", Outermost>>, Remaining)
    /\ IsSome(formatted) => formatted.v = Displayed(<<Outermost>>, Remaining)

\* C20: the outermost context as first line (after "Error: " for
\* to_cli_string); then, unless there is nothing to list, a "Caused by:" line
\* and lines "  (i) message" numbered from 1: the remaining contexts from the
\* outermost to the innermost, the original error when it has been wrapped,
\* and the sources the original error has of its own: exactly n lines for n
\* contexts around an error without a source.
C20_CausesAndOwnSources ==
    /\ IsSome(printed) =>
          printed.v = Displayed(<<"Error: ", Outermost>>, Remaining \o OwnSources(original))
    /\ IsSome(formatted) =>
          formatted.v = Displayed(<<Outermost>>, Remaining \o OwnSources(original))

\* two contexts around an error that has a source, displayed both ways
C20_Witness ==
    /\ Len(contexts) = 2
    /\ OwnSources(original) # <<>>
    /\ IsSome(printed)
    /\ IsSome(formatted)
    /\ Len(printed.v) = 5

-----------------------------------------------------------------------------
(* C22: the shape of a flattened path *)

\* the Literals of a path come first, the Placeholders after them
LiteralsFirst(cl) ==
    /\ cl # <<>>
    /\ cl[1].kind = "Command"
    /\ \A j \in 1..Len(cl) : \A k \in 1..Len(cl) :
          (j < k /\ cl[j].kind = "Arg") => cl[k].kind = "Arg"

\* the paths that are the path to the node followed by Placeholders only
PlaceholderPaths(chain) ==
    {i \in Block(chain) :
        /\ Len(commands[i]) > Len(chain)
        /\ \A k \in (Len(chain) + 1)..Len(commands[i]) : commands[i][k].kind = "Arg"}

\* C22: every flattened path is non-empty, its first item is a Literal and
\* no Literal follows a Placeholder; a subcommand that has subcommands of its
\* own contributes no Placeholder paths even if it declares positional
\* arguments.
C22_LiteralsBeforePlaceholders ==
    /\ \A i \in 1..Len(commands) : LiteralsFirst(commands[i])
    /\ \A chain \in NodeChains(command) :
          (chain # <<>> /\ has_subcommands(Node(chain))) => PlaceholderPaths(chain) = {}

\* a subcommand with subcommands that declares a positional argument, above
\* a leaf whose Placeholder paths are there
C22_Witness ==
    \E chain \in NodeChains(command) :
        /\ Len(chain) = 1
        /\ has_subcommands(Node(chain))
        /\ Node(chain).args # <<>>
        /\ PlaceholderPaths(chain) = {}
        /\ PlaceholderPaths(Append(chain, Node(chain).subs[1].name)) # {}

-----------------------------------------------------------------------------
(* C23: the index complete replaces from *)

\* no quote and no backslash anywhere in s
Unquoted(s) == \A i \in 1..Len(s) : s[i] \notin {"'", "\"", "\\"}

AfterWhitespace(s) == s = <<>> \/ ends_with_whitespace(s)

\* C23 as stated: whenever solve_complete returns a result the index is at
\* most cursor_pos; it is cursor_pos when the text left of the cursor is empty
\* or ends in whitespace, and cursor_pos - len(last token) when the last token
\* is typed without quotes or escapes.
C23_IndexIsTokenStart ==
    ("complete" \in calls /\ IsSome(solved)) =>
        /\ solved.v.index <= pos
        /\ AfterWhitespace(Left) => solved.v.index = pos
        /\ (~AfterWhitespace(Left) /\ Unquoted(Left))
              => solved.v.index = pos - Len(Last(Words(Left)))

\* C23: whenever solve_complete returns a result the index is at most
\* cursor_pos; it is cursor_pos when the text left of the cursor is empty or
\* ends in whitespace, and cursor_pos - len(last token) when the last token is
\* typed without quotes or escapes and the text left of the cursor ends with
\* it (no comment follows it).
C23_IndexIsVerbatimTokenStart ==
    ("complete" \in calls /\ IsSome(solved)) =>
        /\ solved.v.index <= pos
        /\ AfterWhitespace(Left) => solved.v.index = pos
        /\ (~AfterWhitespace(Left) /\ Verbatim(Left))
              => solved.v.index = pos - Len(Last(Words(Left)))

\* the cursor at the end of a second word of two characters, typed as it is
C23_Witness ==
    /\ "complete" \in calls
    /\ IsSome(solved)
    /\ ~AfterWhitespace(Left)
    /\ Verbatim(Left)
    /\ Len(Last(Words(Left))) = 2
    /\ solved.v.index = pos - 2
    /\ solved.v.index >= 1

-----------------------------------------------------------------------------
(* C21: the lines of a table *)

CharCount(str) == Len(str)

\* the text of column i in line r, line 0 being the header line
Text(r, i) == IF r = 0 THEN headers[i] ELSE elements[r][i]

\* the width of column i for a measure of length: the longest of its header
\* and its cells
Width(length(_), i) ==
    SetMax({length(Text(r, i)) : r \in 0..Len(elements)})

\* line r as stated: every column left-aligned and filled with spaces up to
\* its width, the columns joined by three spaces
Aligned(length(_), r) ==
    join([i \in 1..Len(headers) |->
             Text(r, i) \o [k \in 1..(Width(length, i) - length(Text(r, i))) |-> " "]],
         <<" ", " ", " ">>)

TableAsStated(length(_)) ==
    /\ Len(table.v) = Len(elements) + 1
    /\ \A r \in 0..Len(elements) : table.v[r + 1] = Aligned(length, r)
    /\ \A r \in 1..Len(table.v) : length(table.v[r]) = length(table.v[1])

-----------------------------------------------------------------------------
(* C24, C25: the loop of the shell and the commands it runs *)

\* the line of the turn is the command of that name and nothing else
Runs(ev, name) == ev.readline = "Ok" /\ Words(ev.line) = <<name>>

Tokenizes(ev) == ev.readline = "Ok" /\ IsSome(split(ev.line))

BlankLine(ev) == Tokenizes(ev) /\ Words(ev.line) = <<>>

UserCommandRun(ev) == \E name \in UserCommands : Runs(ev, name)

\* the line has words and is none of the commands
Rejected(ev) ==
    /\ Tokenizes(ev)
    /\ Words(ev.line) # <<>>
    /\ ~Runs(ev, exit)
    /\ ~Runs(ev, clear)
    /\ ~UserCommandRun(ev)

\* try_run or clear_screen returns an error: the line does not tokenize, the
\* rejection cannot be written, or the screen cannot be cleared
Propagates(ev) ==
    \/ ev.readline = "Ok" /\ ~IsSome(split(ev.line))
    \/ Rejected(ev) /\ ev.error_print = Some("Err")
    \/ Runs(ev, clear) /\ ev.clear_screen = Some("Err")

\* the loop is left by break
Breaks(ev) == Runs(ev, exit) \/ ev.readline \in {"Eof", "Io"}

\* C24: the loop ends only when Exit is run, readline returns EOF or an error
\* other than Interrupted, or try_run or clear_screen propagates an error;
\* otherwise a Ctrl-C at the prompt, a blank line, a line the parser rejects,
\* Clear and a failing user command leave the loop running.  It is left by
\* break for the first three only, and the history is saved only after a
\* break and with a history path.
C24_LoopEnds ==
    [][/\ (pc = "loop" /\ prompts' # prompts) =>
             /\ pc' \in {"loop", "broken", "returned"}
             /\ pc' # "loop" <=> (Breaks(event'.v) \/ Propagates(event'.v))
             /\ pc' = "broken" <=> Breaks(event'.v)
             /\ (\/ event'.v.readline = "Interrupted"
                 \/ BlankLine(event'.v)
                 \/ Rejected(event'.v) /\ event'.v.error_print = Some("Ok")
                 \/ Runs(event'.v, clear) /\ event'.v.clear_screen = Some("Ok")
                 \/ UserCommandRun(event'.v)) => pc' = "loop"
       /\ pc' = "broken" => pc = "loop"
       /\ saved' # saved => (pc = "broken" /\ IsSome(history_path) /\ saved')]_vars

\* three turns, the last one running Exit, and the history saved
C24_Witness ==
    /\ pc = "returned"
    /\ prompts = 3
    /\ Runs(event.v, exit)
    /\ saved
    /\ result = Some(Ok(<<>>))

\* C25: a user command that is run yields Ok(ShellAction::None) and the loop
\* goes on, whatever run_command returns; Interrupted displays nothing, any
\* other error is displayed with display_cli; only Clear yields ClearScreen and
\* only Exit yields Eof.
C25_UserCommandNeverFails ==
    (IsSome(event) /\ event.v.readline = "Ok") =>
        /\ UserCommandRun(event.v) =>
              /\ action = Some(Ok("None"))
              /\ pc = "loop"
              /\ LET r == event.v.run_command.v
                 IN  displayed = IF r.tag = "Err" /\ r.e.error_kind # "Interrupted"
                                 THEN Some(to_cli_string(r.e))
                                 ELSE None
        /\ action = Some(Ok("ClearScreen")) <=> Runs(event.v, clear)
        /\ action = Some(Ok("Eof")) <=> Runs(event.v, exit)

\* a user command cancelled at its prompt, after one that failed and was
\* displayed: nothing is displayed and the loop goes on
C25_Witness ==
    /\ IsSome(event)
    /\ UserCommandRun(event.v)
    /\ event.v.run_command.v.tag = "Err"
    /\ event.v.run_command.v.e.error_kind = "Interrupted"
    /\ displayed = None
    /\ prompts = 2
    /\ pc = "loop"

=============================================================================
